---- MODULE Spec2Model ----
(***************************************************************************)
(* A model of to-png.py: the batch converter that renders child_{i}.svg    *)
(* to pattern_{i}.png for every i of range(start, end + 1), printing a     *)
(* banner, one line per converted file and a completion line.              *)
(*                                                                         *)
(* The script's only collaborator, cairosvg.svg2png, is a black box: it    *)
(* either writes the PNG rendering of the source document to the           *)
(* destination path and returns, or raises.  Whether it raises is a        *)
(* function of the filesystem the script runs in (source missing, source   *)
(* malformed, destination not writable), which is chosen by Init.          *)
(***************************************************************************)
EXTENDS Integers, Sequences, FiniteSets, TLC

VARIABLES
    start,        \* main's local `start`
    end,          \* main's local `end`
    pc,           \* the statement of to-png.py the process is about to run
    it,           \* the next value the iterator of range(start, end + 1) yields
    frame,        \* the locals the loop binds: i, input_file, output_file
    console,      \* the lines the current process has printed to stdout
    calls,        \* the calls of cairosvg.svg2png the current process has made
    fs,           \* the working directory: path -> content
    unwritable,   \* the paths the process has no permission to write
    written,      \* the paths the current process has written
    runs,         \* how many times the script has been started
    prev          \* how the previous process ended, and the directory it left

vars == <<start, end, pc, it, frame, console, calls, fs, unwritable, written,
          runs, prev>>

----------------------------------------------------------------------------
(* Bounds of the model and constants of the program.                       *)

\* The range compiled into main.
StartConst == 5
EndConst == 30

\* The longest range whose directory is enumerated in full.
MaxSpan == 3
\* How many times the script is started, one process after the other.
MaxRuns == 2

\* The first indices of the enumerated ranges: negative indices, the
\* compiled-in first index, and a range crossing from one digit to two.
Starts == {-2, StartConst, 8}

----------------------------------------------------------------------------
(* str.format on an int: its decimal representation, no padding.           *)

Digit == <<"0", "1", "2", "3", "4", "5", "6", "7", "8", "9">>

RECURSIVE Decimal(_)
Decimal(n) ==
    IF n < 10 THEN Digit[n + 1]
    ELSE Decimal(n \div 10) \o Digit[(n % 10) + 1]

\* "{:02d}".format(n): padded with zeros to two digits.
FormatPadded(n) ==
    IF n < 0 THEN "-" \o Decimal(-n)
    ELSE IF n < 10 THEN "0" \o Decimal(n)
    ELSE Decimal(n)

Format(n) == IF n < 0 THEN "-" \o Decimal(-n) ELSE Decimal(n)

\* "child_{}.svg".format(i)
InputFile(i) == "child_" \o Format(i) \o ".svg"

\* The output named after the first index of the range, whatever i is.
OutputFileOfStart(i) == "pattern_" \o Format(start) \o ".png"

\* The output named after the index that follows i.
OutputFileShifted(i) == "pattern_" \o Format(i + 1) \o ".png"

\* "pattern_{}.png".format(i)
OutputFile(i) == "pattern_" \o Format(i) \o ".png"

\* The glyphs the script prints, by code point.
Hourglass == "U+23F3"
CheckMark == "U+2705"

\* The banner with its two arguments in the wrong order.
BannerLineSwapped(s, e) ==
    Hourglass \o " Converting " \o Format(e) \o " to " \o Format(s) \o "..."

\* "<hourglass> Converting {} to {}...".format(start, end)
BannerLine(s, e) ==
    Hourglass \o " Converting " \o Format(s) \o " to " \o Format(e) \o "..."

\* "<check> Converted {} to {}".format(input_file, output_file)
ConvertedLine(src, dst) ==
    CheckMark \o " Converted " \o src \o " to " \o dst

\* "<check> Done!"
DoneLine == CheckMark \o " Done!"

----------------------------------------------------------------------------
(* The working directory and the rasterizer.                               *)

Absent == "absent"
Malformed == "malformed svg"
Stale == "stale png"
ValidSvg == {"svg A", "svg B"}

\* The PNG a deterministic rasterizer renders from a document.
Raster(doc) == "png of " \o doc

Content(path) == IF path \in DOMAIN fs THEN fs[path] ELSE Absent

\* cairosvg.svg2png(url=src, write_to=dst) raises: the source is missing
\* or is no SVG document, or the destination cannot be written.
Svg2PngRaises(src, dst) ==
    \/ Content(src) \notin ValidSvg
    \/ dst \in unwritable

\* The directory after svg2png has written dst (created or overwritten).
Svg2PngWrites(src, dst) ==
    [p \in DOMAIN fs \cup {dst} |->
        IF p = dst THEN Raster(Content(src)) ELSE fs[p]]

----------------------------------------------------------------------------
(* The directories the script is started in.                               *)

Lo(s, e) == IF s <= e THEN s - 1 ELSE e - 1
Hi(s, e) == IF s <= e THEN e + 1 ELSE s + 1

\* The indices whose files the directory may hold: the range and the
\* indices around it.
Universe(s, e) == Lo(s, e) .. Hi(s, e)

Paths(s, e) ==
    {InputFile(k) : k \in Universe(s, e)} \cup
    {OutputFile(k) : k \in Universe(s, e)}

\* A directory: `src` gives the content of the input of each index of the
\* range, and every output of the range is `out`.  Outside the range the
\* inputs exist and the outputs do not.
Directory(s, e, src, out) ==
    [p \in Paths(s, e) |->
        IF \E k \in s .. e : p = InputFile(k)
            THEN src[CHOOSE k \in s .. e : p = InputFile(k)]
        ELSE IF \E k \in s .. e : p = OutputFile(k) THEN out
        ELSE IF \E k \in Universe(s, e) : p = InputFile(k) THEN "svg A"
        ELSE Absent]

\* The enumerated ranges: up to MaxSpan indices, and the empty ranges with
\* end = start - 1 and end = start - 2.
SmallRanges ==
    UNION {{<<s, e>> : e \in (s - 2) .. (s + MaxSpan - 1)} : s \in Starts}

\* The compiled-in range, with at most one thing wrong in the directory.
SingleFaultDirectories ==
    LET s == StartConst
        e == EndConst
        good == [k \in s .. e |-> "svg A"]
    IN  {<<Directory(s, e, good, Absent), {}>>}
        \cup {<<Directory(s, e, [good EXCEPT ![k] = bad], Absent), {}>> :
                k \in s .. e, bad \in {Absent, Malformed}}
        \cup {<<Directory(s, e, good, Absent), {OutputFile(k)}>> :
                k \in s .. e}

Init ==
    /\ \/ /\ \E r \in SmallRanges : start = r[1] /\ end = r[2]
          /\ \E src \in [start .. end -> {Absent, Malformed} \cup ValidSvg],
                out \in {Absent, Stale} :
                fs = Directory(start, end, src, out)
          /\ \E locked \in {{}} \cup {{OutputFile(k)} : k \in start .. end} :
                unwritable = locked
       \/ /\ start = StartConst
          /\ end = EndConst
          /\ \E d \in SingleFaultDirectories : fs = d[1] /\ unwritable = d[2]
    /\ pc = "main"
    /\ it = start
    /\ frame = [bound |-> FALSE]
    /\ console = <<>>
    /\ calls = <<>>
    /\ written = {}
    /\ runs = 0
    /\ prev = [pc |-> "none", fs |-> fs]

----------------------------------------------------------------------------
(* The statements of to-png.py.                                            *)

\* Line 21, main(): the script is started, for the first time or again
\* after the previous process has ended.  A new process has a fresh stdout
\* and fresh locals; the directory is what the previous process left.
Main ==
    /\ pc \in {"main", "exit", "raised"}
    /\ runs < MaxRuns
    /\ runs' = runs + 1
    /\ prev' = [pc |-> pc, fs |-> fs]
    /\ pc' = "banner"
    /\ it' = start
    /\ frame' = [bound |-> FALSE]
    /\ console' = <<>>
    /\ calls' = <<>>
    /\ written' = {}
    /\ UNCHANGED <<start, end, fs, unwritable>>

\* Line 8: print the banner; line 10 then creates the range iterator.
Banner ==
    /\ pc = "banner"
    /\ console' = Append(console, BannerLine(start, end))
    /\ it' = start
    /\ pc' = "for"
    /\ UNCHANGED <<start, end, frame, calls, fs, unwritable, written, runs, prev>>

\* range(start, end): the last index left out.
RangeHasNextExclusiveEnd == it < end

\* A range whose stop is included.
RangeHasNextThroughStop == it <= end + 1

\* Line 10: range(start, end + 1) has a next value, its stop being exclusive.
RangeHasNext == it < end + 1

\* The loop taking every second index.
ForNextByTwo ==
    /\ pc = "for"
    /\ RangeHasNext
    /\ frame' = [bound |-> TRUE, i |-> it,
                 input_file |-> InputFile(it), output_file |-> OutputFile(it)]
    /\ it' = it + 2
    /\ pc' = "svg2png"
    /\ UNCHANGED <<start, end, console, calls, fs, unwritable, written, runs, prev>>

\* Lines 10-12: the iterator yields the next index and the two paths are
\* derived from it.
ForNext ==
    /\ pc = "for"
    /\ RangeHasNext
    /\ frame' = [bound |-> TRUE, i |-> it,
                 input_file |-> InputFile(it), output_file |-> OutputFile(it)]
    /\ it' = it + 1
    /\ pc' = "svg2png"
    /\ UNCHANGED <<start, end, console, calls, fs, unwritable, written, runs, prev>>

\* Line 10: the iterator is exhausted and the loop ends.
ForExhausted ==
    /\ pc = "for"
    /\ ~RangeHasNext
    /\ pc' = "done"
    /\ UNCHANGED <<start, end, it, frame, console, calls, fs, unwritable,
                   written, runs, prev>>

\* Line 14: svg2png returns, having written the destination.
Svg2PngReturns ==
    /\ pc = "svg2png"
    /\ ~Svg2PngRaises(frame.input_file, frame.output_file)
    /\ calls' = Append(calls, [i |-> frame.i, url |-> frame.input_file,
                               write_to |-> frame.output_file, ok |-> TRUE])
    /\ fs' = Svg2PngWrites(frame.input_file, frame.output_file)
    /\ written' = written \cup {frame.output_file}
    /\ pc' = "converted"
    /\ UNCHANGED <<start, end, it, frame, console, unwritable, runs, prev>>

\* The exception caught and the loop carried on with the next index.
Svg2PngRaisedAndSkipped ==
    /\ pc = "svg2png"
    /\ Svg2PngRaises(frame.input_file, frame.output_file)
    /\ calls' = Append(calls, [i |-> frame.i, url |-> frame.input_file,
                               write_to |-> frame.output_file, ok |-> FALSE])
    /\ pc' = "for"
    /\ UNCHANGED <<start, end, it, frame, console, fs, unwritable, written,
                   runs, prev>>

\* An existence check before the call, refusing to overwrite an output.
Svg2PngRaisedIfExists ==
    /\ pc = "svg2png"
    /\ \/ Svg2PngRaises(frame.input_file, frame.output_file)
       \/ Content(frame.output_file) # Absent
    /\ calls' = Append(calls, [i |-> frame.i, url |-> frame.input_file,
                               write_to |-> frame.output_file, ok |-> FALSE])
    /\ pc' = "raised"
    /\ UNCHANGED <<start, end, it, frame, console, fs, unwritable, written,
                   runs, prev>>

\* Line 14: svg2png raises.  Nothing in main catches the exception: it
\* leaves the loop and main, and the process ends with a traceback.
Svg2PngRaised ==
    /\ pc = "svg2png"
    /\ Svg2PngRaises(frame.input_file, frame.output_file)
    /\ calls' = Append(calls, [i |-> frame.i, url |-> frame.input_file,
                               write_to |-> frame.output_file, ok |-> FALSE])
    /\ pc' = "raised"
    /\ UNCHANGED <<start, end, it, frame, console, fs, unwritable, written,
                   runs, prev>>

\* The loop without its print.
PrintConvertedOmitted ==
    /\ pc = "converted"
    /\ pc' = "for"
    /\ UNCHANGED <<start, end, it, frame, console, calls, fs, unwritable,
                   written, runs, prev>>

\* Line 16: print the per-file line.
PrintConverted ==
    /\ pc = "converted"
    /\ console' = Append(console,
                         ConvertedLine(frame.input_file, frame.output_file))
    /\ pc' = "for"
    /\ UNCHANGED <<start, end, it, frame, calls, fs, unwritable, written,
                   runs, prev>>

\* Line 18: print the completion line; main returns and the process exits.
PrintDone ==
    /\ pc = "done"
    /\ console' = Append(console, DoneLine)
    /\ pc' = "exit"
    /\ UNCHANGED <<start, end, it, frame, calls, fs, unwritable, written,
                   runs, prev>>

Next ==
    \/ Main
    \/ Banner
    \/ ForNext
    \/ ForExhausted
    \/ Svg2PngReturns
    \/ Svg2PngRaised
    \/ PrintConverted
    \/ PrintDone

Spec == Init /\ [][Next]_vars

----------------------------------------------------------------------------
(* What the properties are stated in: the expected names and lines are    *)
(* written out with TLC's ToString, independently of Format above.         *)

ExpectedInput(k) == "child_" \o ToString(k) \o ".svg"
ExpectedOutput(k) == "pattern_" \o ToString(k) \o ".png"
ExpectedBanner ==
    "U+23F3 Converting " \o ToString(start) \o " to " \o ToString(end) \o "..."
ExpectedConverted(k) ==
    "U+2705 Converted " \o ExpectedInput(k) \o " to " \o ExpectedOutput(k)
ExpectedDone == "U+2705 Done!"

\* The number of indices of the range.
RangeSize == IF start <= end THEN end - start + 1 ELSE 0

\* The per-file lines printed so far, in order.
PerFileLines ==
    SelectSeq(console, LAMBDA l : l # ExpectedBanner /\ l # ExpectedDone)

\* The calls of svg2png that have returned.
Returned == SelectSeq(calls, LAMBDA c : c.ok)

AllReturned == \A n \in 1 .. Len(calls) : calls[n].ok

\* The directory the current process was started in.
DirectoryAtStart == prev.fs

----------------------------------------------------------------------------
\* C1: for a range with start <= end in which every svg2png call returns,
\* a complete run has called svg2png exactly end - start + 1 times.
C1_CallCount ==
    (pc = "exit" /\ start <= end /\ AllReturned)
        => Len(calls) = end - start + 1

\* C1 witness: the compiled-in range 5..30 has run to completion with 26
\* calls.
C1_Witness ==
    /\ pc = "exit"
    /\ start = 5
    /\ end = 30
    /\ Len(calls) = 26
    /\ AllReturned

\* C2: if the call for index k raises, the run halts there: it is the last
\* call of the run, the outputs written are exactly those of start..k-1, the
\* outputs of k..end are as they were when the run started, the console shows
\* the banner and the lines of start..k-1 only (no line for k, no "Done!"),
\* and the process has ended with the exception.
C2_HaltsAtFailure ==
    \A n \in 1 .. Len(calls) :
        ~calls[n].ok =>
            LET k == calls[n].i
            IN  /\ n = Len(calls)
                /\ pc = "raised"
                /\ k \in start .. end
                /\ \A m \in 1 .. Len(calls) : m # n => calls[m].i < k
                /\ written = {ExpectedOutput(j) : j \in start .. (k - 1)}
                /\ \A j \in k .. end :
                      Content(ExpectedOutput(j)) =
                          DirectoryAtStart[ExpectedOutput(j)]
                /\ console = <<ExpectedBanner>> \o
                      [j \in 1 .. (k - start) |->
                          ExpectedConverted(start + j - 1)]

\* C2 witness: in the range 5..30 the call for 12 has raised after the
\* outputs of 5..11 were written.
C2_Witness ==
    /\ start = 5
    /\ end = 30
    /\ pc = "raised"
    /\ Len(calls) = 8
    /\ calls[8].i = 12
    /\ ~calls[8].ok
    /\ Cardinality(written) = 7

\* C3: the indices passed to svg2png are start, start + 1, start + 2, ...:
\* ascending, contiguous, none twice.
C3_AscendingContiguous ==
    \A n \in 1 .. Len(calls) : calls[n].i = start + n - 1

\* C3 witness: three calls have been made, for start, start + 1, start + 2.
C3_Witness ==
    /\ Len(calls) = 3
    /\ calls[1].i = start
    /\ calls[2].i = start + 1
    /\ calls[3].i = start + 2

\* C4: every call of svg2png is made with url "child_{i}.svg" and write_to
\* "pattern_{i}.png" for the same i, in unpadded decimal.
C4_PathsOfIndex ==
    \A n \in 1 .. Len(calls) :
        /\ calls[n].url = ExpectedInput(calls[n].i)
        /\ calls[n].write_to = ExpectedOutput(calls[n].i)

\* C4 witness: calls for a negative, a one-digit and a two-digit index.
C4_Witness ==
    \/ /\ start = 8
       /\ Len(calls) = 3
       /\ calls[1].url = "child_8.svg"
       /\ calls[1].write_to = "pattern_8.png"
       /\ calls[3].url = "child_10.svg"
       /\ calls[3].write_to = "pattern_10.png"
    \/ /\ start = -2
       /\ Len(calls) = 1
       /\ calls[1].url = "child_-2.svg"
       /\ calls[1].write_to = "pattern_-2.png"

\* C5: when a run completes, pattern_{i}.png holds the rendering of
\* child_{i}.svg for every i of the range, and the run has written the
\* outputs of the range and nothing else.
C5_OutputsOfRange ==
    pc = "exit" =>
        /\ \A k \in start .. end :
              /\ Content(ExpectedInput(k)) \in ValidSvg
              /\ Content(ExpectedOutput(k)) =
                    "png of " \o Content(ExpectedInput(k))
        /\ written = {ExpectedOutput(k) : k \in start .. end}

\* C5 witness: a completed run over three indices whose outputs were stale
\* before it.
C5_Witness ==
    /\ pc = "exit"
    /\ runs = 1
    /\ end = start + 2
    /\ DirectoryAtStart[ExpectedOutput(start)] = Stale
    /\ Cardinality(written) = 3

\* C6: the banner is printed before any call of svg2png, and the console of
\* a completed run is the banner, the per-file lines of start..end in
\* ascending order, then "Done!".
C6_ConsoleOfRun ==
    /\ Len(calls) > 0 => (Len(console) >= 1 /\ console[1] = ExpectedBanner)
    /\ pc \in {"for", "svg2png", "converted", "done", "raised", "exit"}
          => (Len(console) >= 1 /\ console[1] = ExpectedBanner)
    /\ pc = "exit" =>
          console = <<ExpectedBanner>> \o
                    [j \in 1 .. RangeSize |-> ExpectedConverted(start + j - 1)]
                    \o <<ExpectedDone>>

\* C6 witness: the run over 5..7 has completed with its five lines.
C6_Witness ==
    /\ pc = "exit"
    /\ start = 5
    /\ end = 7
    /\ console = <<"U+23F3 Converting 5 to 7...",
                   "U+2705 Converted child_5.svg to pattern_5.png",
                   "U+2705 Converted child_6.svg to pattern_6.png",
                   "U+2705 Converted child_7.svg to pattern_7.png",
                   "U+2705 Done!">>

\* C7: with start = end a completed run has made one call and printed one
\* per-file line; with start > end no call is ever made and no per-file line
\* printed, and the completed run has printed the banner and "Done!".
C7_BoundaryRanges ==
    /\ (start = end /\ pc = "exit") =>
          (Len(calls) = 1 /\ Len(PerFileLines) = 1)
    /\ start > end =>
          /\ calls = <<>>
          /\ PerFileLines = <<>>
          /\ pc \notin {"svg2png", "converted", "raised"}
          /\ pc = "exit" => console = <<ExpectedBanner, ExpectedDone>>

\* C7 witness: a completed run of an empty range (end = start - 2), which
\* has printed the banner and the completion line.
C7_Witness ==
    /\ pc = "exit"
    /\ end = start - 2
    /\ Len(console) = 2

\* C8: when a run has completed and the script is run again in the
\* directory it left, the second run does not raise, and when it completes
\* the directory is exactly what the first run left.
C8_SecondRun ==
    (runs >= 2 /\ prev.pc = "exit") =>
        /\ pc # "raised"
        /\ pc = "exit" => fs = prev.fs

\* C8 witness: a second run over a non-empty range has completed, having
\* overwritten every output of the first.
C8_Witness ==
    /\ runs = 2
    /\ prev.pc = "exit"
    /\ pc = "exit"
    /\ end = start + 2
    /\ Cardinality(written) = 3

\* C9: the per-file line of i is printed after the call for i has returned
\* and before the call for i + 1 is made: the per-file lines are those of
\* the returned calls, in order, all of them but the last one while the
\* process stands between the return and the print.
C9_LineFollowsCall ==
    /\ Len(PerFileLines) =
          Len(Returned) - (IF pc = "converted" THEN 1 ELSE 0)
    /\ \A n \in 1 .. Len(PerFileLines) :
          n <= Len(Returned) /\ PerFileLines[n] = ExpectedConverted(Returned[n].i)
    /\ pc = "svg2png" => Len(PerFileLines) = Len(calls)

\* C9 witness: the second call has returned and its line is not yet printed.
C9_Witness ==
    /\ pc = "converted"
    /\ Len(Returned) = 2
    /\ Len(PerFileLines) = 1

\* C10: a step changes no path but pattern_{i}.png with i in start..end (so
\* no input is created, modified or deleted), and the step in which svg2png
\* raises changes no path at all.
C10_Frame ==
    [][/\ \A p \in (DOMAIN fs) \cup (DOMAIN fs') :
             (IF p \in DOMAIN fs THEN fs[p] ELSE Absent) #
             (IF p \in DOMAIN fs' THEN fs'[p] ELSE Absent)
                 => \E k \in start .. end : p = ExpectedOutput(k)
       /\ (Len(calls') > Len(calls) /\ ~calls'[Len(calls')].ok) => fs' = fs
      ]_vars

\* C10 witness: a run has raised after writing outputs, and but for those
\* outputs the directory is as it was when the run started.
C10_Witness ==
    /\ pc = "raised"
    /\ Cardinality(written) = 2
    /\ \A p \in DOMAIN fs : p \notin written => fs[p] = DirectoryAtStart[p]
    /\ \E p \in written : fs[p] # DirectoryAtStart[p]

====
